---- MODULE Spec2Model ----
(***************************************************************************)
(* Model of src/oracle.js: the pack32 bit-packing codec and the           *)
(* sequential, nonce-ordered submission loop (main / sendPacked).         *)
(***************************************************************************)
EXTENDS Integers, Sequences, FiniteSets, Bags, TLC

(***************************************************************************)
(* Bounds of the model                                                     *)
(***************************************************************************)
\* how far above a hard limit the sampled field values go
Over == 1
\* how far below zero the sampled field values go
Under == 1
\* number of fields of a pack32 input that differ from the all-zero record
MaxDeviations == 2

(***************************************************************************)
(* Program constants                                                       *)
(***************************************************************************)
GAS_LIMIT == 120000
LimGoles == 8
LimAsistencias == 8
LimPenaltisParados == 4
LimParadas == 32
LimDespejes == 64
LimMinutos == 90
LimAmarillas == 2
LimRojas == 1
CapParadas == 31
CapDespejes == 63
MinutosDiv == 3
PadLen == 8

(***************************************************************************)
(* JavaScript values.  A record p is a function whose DOMAIN is the set of *)
(* fields present in the JSON object.  A JS number that may be             *)
(* undefined/NaN is <<>> (undefined or NaN) or <<n>>.                      *)
(***************************************************************************)
\* p.f read as a number: undefined when the field is absent
Num(p, f) == IF f \in DOMAIN p THEN <<p[f]>> ELSE <<>>

\* JS `a > n`: false when a is undefined (NaN)
Gt(a, n) == a # <<>> /\ a[1] > n

\* JS truthiness of a flag field
Truthy(p, f) == f \in DOMAIN p /\ p[f] = TRUE

\* Math.min(a, cap): NaN when a is undefined
MathMin(a, cap) == IF a = <<>> THEN <<>> ELSE <<IF a[1] < cap THEN a[1] ELSE cap>>

\* the quotient is rounded up
MathFloorDivCeil(a, k) == IF a = <<>> THEN <<>> ELSE <<(a[1] + k - 1) \div k>>

\* Math.floor(a / k): NaN when a is undefined
MathFloorDiv(a, k) == IF a = <<>> THEN <<>> ELSE <<a[1] \div k>>

\* bits i (0..30) of the two's complement form of the integer x
NumBits(x) == {i \in 0..30 : (x \div (2^i)) % 2 = 1}

\* the mask is not applied
BitAndNoMask(a, mask) == IF a = <<>> THEN {} ELSE NumBits(a[1])

\* JS `a & mask` (ToInt32 of NaN/undefined is 0), as the set of one-bits
BitAnd(a, mask) == IF a = <<>> THEN {} ELSE NumBits(a[1]) \cap NumBits(mask)

\* BigInt values are sets of one-bit positions: x << k and x | y
Shl(b, k) == {i + k : i \in b}
BitOr(a, b) == a \cup b

(***************************************************************************)
(* d.toString(16).padStart(8, "0")                                        *)
(***************************************************************************)
HexChar == <<"0", "1", "2", "3", "4", "5", "6", "7",
             "8", "9", "a", "b", "c", "d", "e", "f">>

\* value of hex digit number k (k = 0 is the least significant) of bit set d
Nibble(d, k) == (IF 4*k \in d THEN 1 ELSE 0) + (IF 4*k + 1 \in d THEN 2 ELSE 0)
              + (IF 4*k + 2 \in d THEN 4 ELSE 0) + (IF 4*k + 3 \in d THEN 8 ELSE 0)

\* BigInt.prototype.toString(16): no leading zeros, "0" for zero
ToString16(d) ==
    LET top == IF d = {} THEN 0 ELSE (CHOOSE i \in d : \A j \in d : j <= i) \div 4
    IN  [k \in 1..(top + 1) |-> HexChar[Nibble(d, top + 1 - k) + 1]]

\* String.prototype.padStart(n, "0")
RECURSIVE PadStart(_, _)
PadStart(s, n) == IF Len(s) >= n THEN s ELSE PadStart(<<"0">> \o s, n)

\* the paradas check uses the clamp value 31 as its limit
HardCheckOffByOne(p) ==
    IF Gt(Num(p, "goles"), LimGoles) THEN "goles>8"
    ELSE IF Gt(Num(p, "asistencias"), LimAsistencias) THEN "asis>8"
    ELSE IF Gt(Num(p, "penaltisParados"), LimPenaltisParados) THEN "penaltisParados>4"
    ELSE IF Gt(Num(p, "paradas"), CapParadas) \/ Gt(Num(p, "despejes"), LimDespejes)
         THEN "paradas/despejes fuera de rango"
    ELSE IF Gt(Num(p, "minutosJugados"), LimMinutos) THEN "minutos>90"
    ELSE IF Gt(Num(p, "tarjetasAmarillas"), LimAmarillas)
            \/ Gt(Num(p, "tarjetasRojas"), LimRojas)
         THEN "tarjetas fuera de rango"
    ELSE ""

(***************************************************************************)
(* pack32 (src/oracle.js:30-57)                                            *)
(***************************************************************************)
\* the hard validations, in source order: the message thrown, or "" if none
HardCheck(p) ==
    IF Gt(Num(p, "goles"), LimGoles) THEN "goles>8"
    ELSE IF Gt(Num(p, "asistencias"), LimAsistencias) THEN "asis>8"
    ELSE IF Gt(Num(p, "penaltisParados"), LimPenaltisParados) THEN "penaltisParados>4"
    ELSE IF Gt(Num(p, "paradas"), LimParadas) \/ Gt(Num(p, "despejes"), LimDespejes)
         THEN "paradas/despejes fuera de rango"
    ELSE IF Gt(Num(p, "minutosJugados"), LimMinutos) THEN "minutos>90"
    ELSE IF Gt(Num(p, "tarjetasAmarillas"), LimAmarillas)
            \/ Gt(Num(p, "tarjetasRojas"), LimRojas)
         THEN "tarjetas fuera de rango"
    ELSE ""

\* the BigInt d built by lines 41-54
PackBits(p) ==
    LET paradas  == MathMin(Num(p, "paradas"), CapParadas)
        despejes == MathMin(Num(p, "despejes"), CapDespejes)
        minutosQ == MathFloorDiv(Num(p, "minutosJugados"), MinutosDiv)
        d0 == BitAnd(Num(p, "goles"), 15)
        d1 == BitOr(d0, Shl(BitAnd(Num(p, "asistencias"), 15), 4))
        d2 == BitOr(d1, Shl(BitAnd(paradas, 31), 8))
        d3 == BitOr(d2, Shl(BitAnd(Num(p, "penaltisParados"), 7), 13))
        d4 == BitOr(d3, Shl(BitAnd(despejes, 63), 16))
        d5 == BitOr(d4, Shl(BitAnd(minutosQ, 31), 22))
        d6 == BitOr(d5, Shl(BitAnd(Num(p, "tarjetasAmarillas"), 3), 27))
        d7 == BitOr(d6, Shl(BitAnd(Num(p, "tarjetasRojas"), 1), 29))
        d8 == IF Truthy(p, "porteriaCero") THEN BitOr(d7, Shl({0}, 30)) ELSE d7
        d9 == IF Truthy(p, "ganoPartido") THEN BitOr(d8, Shl({0}, 31)) ELSE d8
    IN  d9

\* result of a call: thrown error (ok = FALSE) or the returned hex string
\* (the characters after the "0x" prefix)
pack32(p) ==
    IF HardCheck(p) # ""
    THEN [ok |-> FALSE, err |-> HardCheck(p), id |-> Num(p, "id"), hex |-> <<>>]
    ELSE [ok |-> TRUE, err |-> "", id |-> Num(p, "id"),
          hex |-> CHOOSE h \in {PadStart(ToString16(d), PadLen) : d \in {PackBits(p)}} : TRUE]

(***************************************************************************)
(* Reading a rendered word back (used to state the codec properties)       *)
(***************************************************************************)
HexVal(c) == CHOOSE v \in 0..15 : HexChar[v + 1] = c

\* the set of one-bits of the number a hex string denotes
ParseHex(h) == {i \in 0..(4 * Len(h) - 1) :
                  (HexVal(h[Len(h) - (i \div 4)]) \div (2^(i % 4))) % 2 = 1}

\* the unsigned value held in bits lo..hi of bit set d
FieldOf(d, lo, hi) == LET S == {i \in lo..hi : i \in d}
                          RECURSIVE Sum(_)
                          Sum(T) == IF T = {} THEN 0
                                    ELSE LET i == CHOOSE x \in T : TRUE
                                         IN 2^(i - lo) + Sum(T \ {i})
                      IN Sum(S)

(***************************************************************************)
(* Inputs                                                                  *)
(***************************************************************************)
\* longest stats.json batch
MaxRecords == 3
\* how many times the network reports an error for a transaction it received
MaxLateErrors == 1

\* the all-zero record
ZeroRecord == [id |-> 1, goles |-> 0, asistencias |-> 0, penaltisParados |-> 0,
               paradas |-> 0, despejes |-> 0, minutosJugados |-> 0,
               tarjetasAmarillas |-> 0, tarjetasRojas |-> 0,
               porteriaCero |-> FALSE, ganoPartido |-> FALSE]

FieldOrder == <<"goles", "asistencias", "penaltisParados", "paradas", "despejes",
                "minutosJugados", "tarjetasAmarillas", "tarjetasRojas",
                "porteriaCero", "ganoPartido">>

\* sampled values around a hard limit: below zero, mid-range, the limit, above it
Around(lim) == ((0 - Under)..(0 - 1)) \cup {lim \div 2, lim - 1, lim} \cup ((lim + 1)..(lim + Over))

\* the values a field takes when it differs from ZeroRecord
Alt(f) == CASE f = "goles" -> Around(LimGoles)
            [] f = "asistencias" -> Around(LimAsistencias)
            [] f = "penaltisParados" -> Around(LimPenaltisParados)
            [] f = "paradas" -> Around(LimParadas)
            [] f = "despejes" -> Around(LimDespejes)
            [] f = "minutosJugados" -> Around(LimMinutos)
            [] f = "tarjetasAmarillas" -> Around(LimAmarillas)
            [] f = "tarjetasRojas" -> Around(LimRojas)
            [] OTHER -> {TRUE}

\* r without field f (the field is absent from the JSON object)
Without(r, f) == [g \in DOMAIN r \ {f} |-> r[g]]

\* records that differ from ZeroRecord in at most b of the fields i..10:
\* a differing field holds another value or is absent
RECURSIVE Deviate(_, _)
Deviate(i, b) ==
    IF i > Len(FieldOrder) THEN {ZeroRecord}
    ELSE LET f == FieldOrder[i]
         IN  Deviate(i + 1, b)
             \cup (IF b = 0 THEN {}
                   ELSE {[r EXCEPT ![f] = v] : r \in Deviate(i + 1, b - 1), v \in Alt(f)}
                        \cup {Without(r, f) : r \in Deviate(i + 1, b - 1)})

PackInputs == Deviate(1, MaxDeviations)

\* records of a batch: the end-to-end records of the specification (a valid
\* record, one with goles = 9, one without goles whose other fields are
\* out of range)
RValid == [ZeroRecord EXCEPT !.id = 1, !.goles = 2, !.asistencias = 1, !.paradas = 5,
                             !.despejes = 10, !.minutosJugados = 90, !.ganoPartido = TRUE]
RInvalid == [ZeroRecord EXCEPT !.id = 2, !.goles = 9]
RIncomplete == Without([ZeroRecord EXCEPT !.id = 3, !.asistencias = 9, !.paradas = 40], "goles")
BatchRecords == {RValid, RInvalid, RIncomplete}

RECURSIVE SeqsUpTo(_, _)
SeqsUpTo(S, n) == IF n = 0 THEN {<<>>}
                  ELSE SeqsUpTo(S, n - 1)
                       \cup {Append(q, x) : q \in {t \in SeqsUpTo(S, n - 1) : Len(t) = n - 1}, x \in S}

\* values of the network: account nonce, pending base fee, receipt gas, latency
StartNonces == {0, 7}
BaseFees == {0 - 1, 3}
GasUsedValues == {50000, 70000}
LatenciesMs == {120, 340}

(***************************************************************************)
(* State                                                                   *)
(***************************************************************************)
VARIABLES
    stats,        \* the parsed stats.json
    pc,           \* position of the single flow of control
    idx,          \* index of the record the for-loop is at
    nonce,        \* main's nonce counter
    startNonce,   \* what getTransactionCount returned
    packed,       \* <<>> or <<result of the last pack32 call>>
    call,         \* <<>> or <<the arguments of the running sendPacked call>>
    base,         \* sendPacked's local base, <<>> before it is read
    txData,       \* sendPacked's request object, <<>> before it is built
    signed,       \* <<>> or <<the transaction signed for this attempt>>
    attempts,     \* calls async-retry made of the attempt function for this record
    totalGas,     \* metrics: running gas total
    latencies,    \* metrics: latency sequence
    network,      \* bag of the transactions the network received, tagged by record
    lateErrors,   \* errors reported for transactions the network received
    status,       \* per record: its state in the submission state machine
    error,        \* message of the error that ended the run, "" if none
    summary,      \* <<>> or <<the printed summary>>
    pendingBaseFee \* the network: baseFeePerGas of the pending block

vars == <<stats, pc, idx, nonce, startNonce, packed, call, base, txData, signed, attempts,
          totalGas, latencies, network, lateErrors, status, error, summary, pendingBaseFee>>

\* one retry too many
RetriesFour == 3 + 1

\* retries: 3 (line 93)
RETRIES == 3

\* line 69
Tip == 2 * 10^9

Records == 1..Len(stats)

InitCommon ==
    /\ idx = 1
    /\ nonce = 0
    /\ startNonce = <<>>
    /\ packed = <<>>
    /\ call = <<>>
    /\ base = <<>>
    /\ txData = <<>>
    /\ signed = <<>>
    /\ attempts = 0
    /\ totalGas = 0
    /\ latencies = <<>>
    /\ network = EmptyBag
    /\ lateErrors = 0
    /\ status = [i \in Records |-> "Pending"]
    /\ error = ""
    /\ summary = <<>>

Init ==
    /\ stats \in SeqsUpTo(BatchRecords, MaxRecords)
    /\ pendingBaseFee \in BaseFees
    /\ pc = "start"
    /\ InitCommon

\* the completeness test is missing
IsIncompleteNever(p) == FALSE

(***************************************************************************)
(* main (src/oracle.js:97-118)                                             *)
(***************************************************************************)
\* line 103: p.goles === undefined
IsIncomplete(p) == "goles" \notin DOMAIN p

\* the for-loop is at its head: every earlier call was awaited
AtLoopHead == pc = "loop"

\* the counter is passed on without being incremented
NextNonceStuck(n) == n

\* nonce++ (line 105)
NextNonce(n) == n + 1

\* line 99: getTransactionCount answers
GetTransactionCount ==
    /\ pc = "start"
    /\ \E n \in StartNonces : nonce' = n /\ startNonce' = <<n>>
    /\ pc' = "loop"
    /\ UNCHANGED <<pendingBaseFee, stats, idx, packed, call, base, txData, signed, attempts, totalGas,
                   latencies, network, lateErrors, status, error, summary>>

\* line 99: getTransactionCount rejects, the run ends with the rejection
GetTransactionCountFail ==
    /\ pc = "start"
    /\ pc' = "aborted"
    /\ error' = "getTransactionCount"
    /\ UNCHANGED <<pendingBaseFee, stats, idx, nonce, startNonce, packed, call, base, txData, signed, attempts,
                   totalGas, latencies, network, lateErrors, status, summary>>

\* variant: a skipped record uses up a nonce
LoopSkipConsumesNonce ==
    /\ AtLoopHead
    /\ idx \in Records
    /\ IsIncomplete(stats[idx])
    /\ status' = [status EXCEPT ![idx] = "Skipped"]
    /\ nonce' = NextNonce(nonce)
    /\ idx' = idx + 1
    /\ pc' = "loop"
    /\ UNCHANGED <<pendingBaseFee, stats, startNonce, packed, call, base, txData, signed, attempts,
                   totalGas, latencies, network, lateErrors, error, summary>>

\* line 103: the record has no goles, continue
LoopSkip ==
    /\ AtLoopHead
    /\ idx \in Records
    /\ IsIncomplete(stats[idx])
    /\ status' = [status EXCEPT ![idx] = "Skipped"]
    /\ idx' = idx + 1
    /\ pc' = "loop"
    /\ UNCHANGED <<pendingBaseFee, stats, nonce, startNonce, packed, call, base, txData, signed, attempts,
                   totalGas, latencies, network, lateErrors, error, summary>>

\* the error is caught and the loop goes on with the next record
LoopPackThrowContinue ==
    /\ AtLoopHead
    /\ idx \in Records
    /\ ~IsIncomplete(stats[idx])
    /\ ~pack32(stats[idx]).ok
    /\ status' = [status EXCEPT ![idx] = "Rejected"]
    /\ idx' = idx + 1
    /\ pc' = "loop"
    /\ UNCHANGED <<pendingBaseFee, stats, nonce, startNonce, packed, call, base, txData, signed, attempts,
                   totalGas, latencies, network, lateErrors, error, summary>>

\* line 104: pack32 throws, the run ends with the error
LoopPackThrow ==
    /\ AtLoopHead
    /\ idx \in Records
    /\ ~IsIncomplete(stats[idx])
    /\ \E r \in {pack32(stats[idx])} :
          /\ ~r.ok
          /\ error' = r.err
    /\ status' = [status EXCEPT ![idx] = "Rejected"]
    /\ pc' = "aborted"
    /\ UNCHANGED <<pendingBaseFee, stats, idx, nonce, startNonce, packed, call, base, txData, signed, attempts,
                   totalGas, latencies, network, lateErrors, summary>>

\* sendPacked is called without await: the loop goes on at once
LoopCallNoAwait ==
    /\ AtLoopHead
    /\ idx \in Records
    /\ ~IsIncomplete(stats[idx])
    /\ \E r \in {pack32(stats[idx])} :
          /\ r.ok
          /\ packed' = <<r>>
          /\ call' = <<[packedHex |-> r.hex, id |-> Num(stats[idx], "id"),
                        nonce |-> nonce]>>
    /\ nonce' = NextNonce(nonce)
    /\ status' = [status EXCEPT ![idx] = "Building"]
    /\ idx' = idx + 1
    /\ pc' = "loop"
    /\ UNCHANGED <<pendingBaseFee, stats, startNonce, base, txData, signed, attempts, totalGas, latencies,
                   network, lateErrors, error, summary>>

\* lines 104-105 and 64-65: pack32 returns, sendPacked is called with
\* nonce++ and encodes the call; it suspends at getBlock
LoopCall ==
    /\ AtLoopHead
    /\ idx \in Records
    /\ ~IsIncomplete(stats[idx])
    /\ \E r \in {pack32(stats[idx])} :
          /\ r.ok
          /\ packed' = <<r>>
          /\ call' = <<[packedHex |-> r.hex, id |-> Num(stats[idx], "id"),
                        nonce |-> nonce]>>
    /\ nonce' = NextNonce(nonce)
    /\ base' = <<>>
    /\ txData' = <<>>
    /\ signed' = <<>>
    /\ attempts' = 0
    /\ status' = [status EXCEPT ![idx] = "Building"]
    /\ pc' = "getBlock"
    /\ UNCHANGED <<pendingBaseFee, stats, idx, startNonce, totalGas, latencies, network, lateErrors,
                   error, summary>>

(***************************************************************************)
(* sendPacked (src/oracle.js:63-94)                                        *)
(***************************************************************************)
\* lines 72-80: the request object built from the arguments and the base fee
BuildTx(c, b) ==
    [from |-> "acct", to |-> "league", gas |-> GAS_LIMIT,
     maxPriorityFeePerGas |-> Tip, maxFeePerGas |-> b * 2 + Tip,
     nonce |-> c.nonce, data |-> [id |-> c.id, packedHex |-> c.packedHex]]

\* the base fee of an earlier submission is reused instead of the pending block's
GetBlockCached ==
    /\ pc = "getBlock"
    /\ LET b == IF BagToSet(network) = {} THEN pendingBaseFee
                ELSE ((CHOOSE e \in BagToSet(network) : TRUE).tx.maxFeePerGas - Tip) \div 2
       IN  /\ base' = <<b>>
           /\ txData' = <<BuildTx(call[1], b)>>
    /\ pc' = "sign"
    /\ UNCHANGED <<pendingBaseFee, stats, idx, nonce, startNonce, packed, call, signed, attempts,
                   totalGas, latencies, network, lateErrors, status, error, summary>>

\* lines 67-80: the pending block arrives, the request is built from its base fee
\* and retry(...) makes its first call of the attempt function
GetBlock ==
    /\ pc = "getBlock"
    /\ base' = <<pendingBaseFee>>
    /\ txData' = <<BuildTx(call[1], pendingBaseFee)>>
    /\ pc' = "sign"
    /\ UNCHANGED <<pendingBaseFee, stats, idx, nonce, startNonce, packed, call, signed, attempts,
                   totalGas, latencies, network, lateErrors, status, error, summary>>

\* the failed read is counted as an attempt and made again
GetBlockFailRetried ==
    /\ pc = "getBlock"
    /\ attempts' = attempts + 1
    /\ IF attempts + 1 <= RETRIES
       THEN /\ status' = [status EXCEPT ![idx] = "Retrying"]
            /\ pc' = "getBlock"
            /\ error' = error
       ELSE /\ status' = [status EXCEPT ![idx] = "Failed"]
            /\ pc' = "aborted"
            /\ error' = "baseFee"
    /\ UNCHANGED <<pendingBaseFee, stats, idx, nonce, startNonce, packed, call, base, txData,
                   signed, totalGas, latencies, network, lateErrors, summary>>

\* lines 67-68: getBlock rejects, or the block has no baseFeePerGas and
\* BigInt(undefined) throws: sendPacked rejects before retry(...) is reached
GetBlockFail ==
    /\ pc = "getBlock"
    /\ status' = [status EXCEPT ![idx] = "Failed"]
    /\ error' = "baseFee"
    /\ pc' = "aborted"
    /\ UNCHANGED <<pendingBaseFee, stats, idx, nonce, startNonce, packed, call, base, txData, signed,
                   attempts, totalGas, latencies, network, lateErrors, summary>>

\* async-retry with { retries: 3 }: after the a-th call of the attempt
\* function failed, another call is made iff a <= retries
RetryAllowed(a) == a <= RETRIES

\* the attempt function threw on its a-th call: onRetry and a new call, or
\* retry(...) rejects and the run ends with the error
AttemptFailed(a, msg) ==
    IF RetryAllowed(a)
    THEN /\ status' = [status EXCEPT ![idx] = "Retrying"]
         /\ pc' = "sign"
         /\ error' = error
    ELSE /\ status' = [status EXCEPT ![idx] = "Failed"]
         /\ pc' = "aborted"
         /\ error' = msg

\* the nonce is taken anew on every attempt
AttemptTxFreshNonce == [txData[1] EXCEPT !.nonce = @ + attempts]

\* line 84: what an attempt signs is the request object built before retry(...)
AttemptTx == txData[1]

\* the attempt is not counted
SignUncounted ==
    /\ pc = "sign"
    /\ signed' = <<AttemptTx>>
    /\ status' = [status EXCEPT ![idx] = "Signed"]
    /\ pc' = "send"
    /\ UNCHANGED <<pendingBaseFee, stats, idx, nonce, startNonce, packed, call, base, txData,
                   attempts, totalGas, latencies, network, lateErrors, error, summary>>

\* lines 83-84: an attempt starts and signTransaction returns
Sign ==
    /\ pc = "sign"
    /\ attempts' = attempts + 1
    /\ signed' = <<AttemptTx>>
    /\ status' = [status EXCEPT ![idx] = "Signed"]
    /\ pc' = "send"
    /\ UNCHANGED <<pendingBaseFee, stats, idx, nonce, startNonce, packed, call, base, txData, totalGas,
                   latencies, network, lateErrors, error, summary>>

\* lines 83-84: an attempt starts and signTransaction rejects
SignFail ==
    /\ pc = "sign"
    /\ attempts' = attempts + 1
    /\ signed' = <<>>
    /\ AttemptFailed(attempts + 1, "sign")
    /\ UNCHANGED <<pendingBaseFee, stats, idx, nonce, startNonce, packed, call, base, txData, totalGas,
                   latencies, network, lateErrors, summary>>

\* variant: nothing is sent when the network already holds this nonce
BroadcastOnce ==
    /\ pc = "send"
    /\ network' = IF \E e \in BagToSet(network) : e.tx.nonce = signed[1].nonce
                  THEN network
                  ELSE network (+) SetToBag({[rec |-> idx, tx |-> signed[1]]})
    /\ status' = [status EXCEPT ![idx] = "Broadcast"]
    /\ pc' = "receipt"
    /\ UNCHANGED <<pendingBaseFee, stats, idx, nonce, startNonce, packed, call, base, txData, signed,
                   attempts, totalGas, latencies, lateErrors, error, summary>>

\* line 85: the signed transaction reaches the network
Broadcast ==
    /\ pc = "send"
    /\ network' = network (+) SetToBag({[rec |-> idx, tx |-> signed[1]]})
    /\ status' = [status EXCEPT ![idx] = "Broadcast"]
    /\ pc' = "receipt"
    /\ UNCHANGED <<pendingBaseFee, stats, idx, nonce, startNonce, packed, call, base, txData, signed,
                   attempts, totalGas, latencies, lateErrors, error, summary>>

\* the latency of a failed send is recorded too
SendFailRecorded ==
    /\ pc = "send"
    /\ signed' = <<>>
    /\ \E dt \in LatenciesMs : latencies' = Append(latencies, dt)
    /\ AttemptFailed(attempts, "send")
    /\ UNCHANGED <<pendingBaseFee, stats, idx, nonce, startNonce, packed, call, base, txData, attempts,
                   totalGas, network, lateErrors, summary>>

\* line 85: sendSignedTransaction rejects, the transaction never reached the network
SendFail ==
    /\ pc = "send"
    /\ signed' = <<>>
    /\ AttemptFailed(attempts, "send")
    /\ UNCHANGED <<pendingBaseFee, stats, idx, nonce, startNonce, packed, call, base, txData, attempts,
                   totalGas, latencies, network, lateErrors, summary>>

\* line 85: sendSignedTransaction rejects after the network received the
\* transaction (timeout, dropped connection, revert)
SendLateFail ==
    /\ pc = "receipt"
    /\ lateErrors < MaxLateErrors
    /\ lateErrors' = lateErrors + 1
    /\ signed' = <<>>
    /\ AttemptFailed(attempts, "receipt")
    /\ UNCHANGED <<pendingBaseFee, stats, idx, nonce, startNonce, packed, call, base, txData, attempts,
                   totalGas, latencies, network, summary>>

\* lines 85-92 and 105-106: the receipt arrives, the metrics are updated,
\* sendPacked resolves and the loop moves on
Receipt ==
    /\ pc = "receipt"
    /\ \E g \in GasUsedValues, dt \in LatenciesMs :
          /\ totalGas' = totalGas + g
          /\ latencies' = Append(latencies, dt)
    /\ signed' = <<>>
    /\ status' = [status EXCEPT ![idx] = "Confirmed"]
    /\ idx' = idx + 1
    /\ pc' = "loop"
    /\ UNCHANGED <<pendingBaseFee, stats, nonce, startNonce, packed, call, base, txData, attempts,
                   network, lateErrors, error, summary>>

(***************************************************************************)
(* The summary (src/oracle.js:107-117)                                     *)
(***************************************************************************)
RECURSIVE SumSeq(_)
SumSeq(q) == IF q = <<>> THEN 0 ELSE q[1] + SumSeq(Tail(q))

\* (a / n).toFixed(0) for a >= 0: <<>> is NaN (n = 0), halves round up
ToFixed0(a, n) == IF n = 0 THEN <<>> ELSE <<(2 * a + n) \div (2 * n)>>

\* the summary is printed in a finally block
SummaryAlways ==
    /\ \/ AtLoopHead /\ idx > Len(stats)
       \/ pc = "aborted" /\ summary = <<>>
    /\ summary' = <<[processed |-> Len(stats), totalGas |-> totalGas,
                     avgGas |-> ToFixed0(totalGas, Len(stats)),
                     avgLat |-> ToFixed0(SumSeq(latencies), Len(stats))]>>
    /\ pc' = IF pc = "aborted" THEN "aborted" ELSE "done"
    /\ UNCHANGED <<pendingBaseFee, stats, idx, nonce, startNonce, packed, call, base, txData, signed,
                   attempts, totalGas, latencies, network, lateErrors, status, error>>

\* the averages are taken over the submitted records only
SummaryBySubmitted ==
    /\ AtLoopHead
    /\ idx > Len(stats)
    /\ summary' = <<[processed |-> Len(stats), totalGas |-> totalGas,
                     avgGas |-> ToFixed0(totalGas, Len(latencies)),
                     avgLat |-> ToFixed0(SumSeq(latencies), Len(latencies))]>>
    /\ pc' = "done"
    /\ UNCHANGED <<pendingBaseFee, stats, idx, nonce, startNonce, packed, call, base, txData,
                   signed, attempts, totalGas, latencies, network, lateErrors, status, error>>

\* lines 107-117: the loop is over, the summary is printed
Summary ==
    /\ AtLoopHead
    /\ idx > Len(stats)
    /\ summary' = <<[processed |-> Len(stats), totalGas |-> totalGas,
                     avgGas |-> ToFixed0(totalGas, Len(stats)),
                     avgLat |-> ToFixed0(SumSeq(latencies), Len(stats))]>>
    /\ pc' = "done"
    /\ UNCHANGED <<pendingBaseFee, stats, idx, nonce, startNonce, packed, call, base, txData, signed,
                   attempts, totalGas, latencies, network, lateErrors, status, error>>

\* the network moves on: the pending block gets another base fee
NewBlock ==
    /\ \E b \in BaseFees \ {pendingBaseFee} : pendingBaseFee' = b
    /\ UNCHANGED <<stats, pc, idx, nonce, startNonce, packed, call, base, txData, signed,
                   attempts, totalGas, latencies, network, lateErrors, status, error, summary>>

\* the steps of the program
Step ==
    \/ GetTransactionCount
    \/ GetTransactionCountFail
    \/ LoopSkip
    \/ LoopPackThrow
    \/ LoopCall
    \/ GetBlock
    \/ GetBlockFail
    \/ Sign
    \/ SignFail
    \/ Broadcast
    \/ SendFail
    \/ SendLateFail
    \/ Receipt
    \/ Summary

Next ==
    \/ Step
    \/ NewBlock

Spec == Init /\ [][Next]_vars

\* every awaited call returns: the program takes a step whenever it can
\* (the pending base fee stays as it is during the run)
LiveSpec == Init /\ [][Step]_vars /\ WF_vars(Step)

(***************************************************************************)
(* pack32 called on its own, on every sampled record                       *)
(***************************************************************************)
InitPack ==
    /\ stats \in {<<r>> : r \in PackInputs}
    /\ pendingBaseFee \in BaseFees
    /\ pc = "harness"
    /\ InitCommon

\* packed = pack32(p), a thrown error kept as the result
PackCall ==
    /\ pc = "harness"
    /\ packed' = <<pack32(stats[1])>>
    /\ pc' = "returned"
    /\ UNCHANGED <<pendingBaseFee, stats, idx, nonce, startNonce, call, base, txData, signed, attempts,
                   totalGas, latencies, network, lateErrors, status, error, summary>>

NextPack == PackCall

SpecPack == InitPack /\ [][NextPack]_vars

(***************************************************************************)
(* Vocabulary of the properties                                            *)
(***************************************************************************)
Received == BagToSet(network)
\* records with at least one transaction received by the network
Submitted == {e.rec : e \in Received}
\* records handed to sendPacked
Called == {i \in Records : status[i] \notin {"Pending", "Skipped", "Rejected"}}
Confirmed == {i \in Records : status[i] = "Confirmed"}
InFlight == {i \in Records : status[i] \in {"Building", "Signed", "Broadcast", "Retrying"}}

(***************************************************************************)
(* C1: the records that reach submission carry, in input order, the nonces *)
(* startingNonce, startingNonce + 1, ... with no duplicate and no gap, and *)
(* the counter has moved by exactly one per record handed to submission,   *)
(* whatever the number of attempts.                                        *)
(***************************************************************************)
NonceSequence ==
    /\ \A e \in Received :
          /\ startNonce # <<>>
          /\ e.tx.nonce = startNonce[1] + Cardinality({r \in Submitted : r < e.rec})
    /\ Submitted \subseteq Called
    /\ startNonce # <<>> => nonce = startNonce[1] + Cardinality(Called)

\* three records submitted, one of them after a retry
NonceSequenceWitness ==
    /\ Cardinality(Submitted) >= 3
    /\ BagCardinality(network) > Cardinality(Submitted)
    /\ pc = "done"

(***************************************************************************)
(* C2: every attempt of a record signs and sends the request built before  *)
(* the first attempt (same nonce, sender, target, gas limit, fees,         *)
(* payload), built from the one base fee read for the record.              *)
(***************************************************************************)
SameRequestOnRetry ==
    /\ \A e1, e2 \in Received : e1.rec = e2.rec => e1.tx = e2.tx
    /\ signed # <<>> => signed[1] = txData[1]
    /\ txData # <<>> => txData[1] = BuildTx(call[1], base[1])
    /\ \A e \in Received : e.rec = idx /\ idx \in InFlight => e.tx = txData[1]

\* a later attempt of a record is about to be sent after an earlier one
\* reached the network
SameRequestOnRetryWitness ==
    /\ pc = "send"
    /\ attempts >= 3
    /\ \E e \in Received : e.rec = idx

(***************************************************************************)
(* C3: a record is attempted at most 4 times; when the 4th attempt fails   *)
(* the run is aborted: no later record is packed or submitted and there is *)
(* no summary.                                                             *)
(***************************************************************************)
RetryBudget ==
    /\ attempts <= 4
    /\ error \in {"sign", "send", "receipt"} =>
          /\ attempts = 4
          /\ pc = "aborted"
          /\ status[idx] = "Failed"
          /\ summary = <<>>
          /\ \A j \in Records : j > idx => status[j] = "Pending"
          /\ \A e \in Received : e.rec <= idx
    /\ pc \in {"sign", "send", "receipt"} => error = ""

\* the retries of a record are exhausted while later records wait
RetryBudgetWitness ==
    /\ error = "send"
    /\ attempts = 4
    /\ idx < Len(stats)
    /\ idx > 1

ValidationAbortState ==
    \A k \in Records : status[k] = "Rejected" =>
        /\ pc = "aborted"
        /\ \A e \in Received : e.rec < k
        /\ \A j \in Records : j > k => status[j] = "Pending"
        /\ \A i \in Records : i < k /\ ~IsIncomplete(stats[i]) =>
              status[i] = "Confirmed" /\ i \in Submitted

(***************************************************************************)
(* C4: when pack32 rejects record k, nothing is ever submitted for k or    *)
(* for a later record, and what the network received for the earlier       *)
(* records stays.                                                          *)
(***************************************************************************)
ValidationAbort ==
    /\ []ValidationAbortState
    /\ [][\A e \in Received : CopiesIn(e, network') >= CopiesIn(e, network)]_vars

\* the second of three records is rejected after the first was submitted
ValidationAbortWitness ==
    /\ Len(stats) = 3
    /\ status[2] = "Rejected"
    /\ status[1] = "Confirmed"
    /\ ~IsIncomplete(stats[3])

SkipState ==
    \A i \in Records : "goles" \notin DOMAIN stats[i] =>
        /\ status[i] \in {"Pending", "Skipped"}
        /\ i \notin Submitted

SkipStep ==
    (pc = "loop" /\ idx \in Records /\ "goles" \notin DOMAIN stats[idx]
        /\ pendingBaseFee' = pendingBaseFee) =>
        /\ status' = [status EXCEPT ![idx] = "Skipped"]
        /\ idx' = idx + 1
        /\ pc' = "loop"
        /\ UNCHANGED <<nonce, network, totalGas, latencies, error, packed, call, summary>>

(***************************************************************************)
(* C5: a record without the goles field is skipped before validation: it   *)
(* is never handed to pack32 or sendPacked, nothing is submitted for it,   *)
(* and the step that passes it leaves the nonce counter, the network, the  *)
(* metrics and the error untouched and stays in the loop, whatever its     *)
(* other fields hold.                                                      *)
(***************************************************************************)
SkipIncomplete == []SkipState /\ [][SkipStep]_vars

\* an incomplete record with out-of-range fields sits between two submitted
\* records of a completed batch
SkipIncompleteWitness ==
    /\ pc = "done"
    /\ Len(stats) = 3
    /\ status[2] = "Skipped"
    /\ Gt(Num(stats[2], "asistencias"), 8)
    /\ Submitted = {1, 3}

(***************************************************************************)
(* C6: records are processed one at a time in input order: a record is     *)
(* touched only when every earlier record is skipped, confirmed or failed, *)
(* and at most one record is between its sendPacked call and its outcome.  *)
(***************************************************************************)
Sequential ==
    /\ \A i, j \in Records :
          (i < j /\ status[j] # "Pending") => status[i] \in {"Skipped", "Confirmed", "Failed"}
    /\ Cardinality(InFlight) <= 1
    /\ \A e1, e2 \in Received :
          e1.rec < e2.rec => status[e1.rec] \in {"Confirmed", "Failed"}

\* the third record is being retried after the first two were confirmed
SequentialWitness ==
    /\ Len(stats) = 3
    /\ status[3] = "Retrying"
    /\ status[1] = "Confirmed"
    /\ status[2] = "Confirmed"

MetricsState ==
    /\ Len(latencies) = Cardinality(Confirmed)
    /\ \A k \in 1..Len(latencies) : latencies[k] \in LatenciesMs
    /\ totalGas >= 50000 * Cardinality(Confirmed)
    /\ totalGas <= 70000 * Cardinality(Confirmed)

MetricsStep ==
    LET confirms == \E i \in Records : status[i] # "Confirmed" /\ status'[i] = "Confirmed"
    IN  IF confirms
        THEN /\ Len(latencies') = Len(latencies) + 1
             /\ SubSeq(latencies', 1, Len(latencies)) = latencies
             /\ (totalGas' - totalGas) \in GasUsedValues
        ELSE UNCHANGED <<totalGas, latencies>>

(***************************************************************************)
(* C7: the metrics hold exactly one entry per confirmed record, added by   *)
(* the step that confirms it: the latency sequence grows by one latency    *)
(* and the total by one receipt's gas; no other step changes them.         *)
(***************************************************************************)
MetricsPerSuccess == []MetricsState /\ [][MetricsStep]_vars

\* a record confirmed on a retry, then a record whose four attempts all failed
MetricsPerSuccessWitness ==
    /\ Cardinality(Confirmed) = 1
    /\ lateErrors = 1
    /\ BagCardinality(network) >= 2
    /\ \E i \in Records : status[i] = "Failed" /\ attempts = 4

(***************************************************************************)
(* C8: a summary exists only when every record of the batch is skipped or  *)
(* confirmed; a run ended by an error (validation, base fee, exhausted     *)
(* retries) has no summary.                                                *)
(***************************************************************************)
SummaryOnlyAfterAll ==
    /\ summary # <<>> =>
          /\ \A i \in Records : status[i] \in {"Skipped", "Confirmed"}
          /\ error = ""
          /\ pc = "done"
    /\ (pc = "aborted" \/ error # "" \/ \E i \in Records : status[i] \in {"Rejected", "Failed"})
          => summary = <<>>

\* the summary of a batch with a skipped and a confirmed record
SummaryOnlyAfterAllWitness ==
    /\ summary # <<>>
    /\ \E i \in Records : status[i] = "Skipped"
    /\ \E i \in Records : status[i] = "Confirmed"

Exceeds(p, f, lim) == f \in DOMAIN p /\ p[f] > lim

AnyLimitExceeded(p) ==
    \/ Exceeds(p, "goles", 8)
    \/ Exceeds(p, "asistencias", 8)
    \/ Exceeds(p, "penaltisParados", 4)
    \/ Exceeds(p, "paradas", 32)
    \/ Exceeds(p, "despejes", 64)
    \/ Exceeds(p, "minutosJugados", 90)
    \/ Exceeds(p, "tarjetasAmarillas", 2)
    \/ Exceeds(p, "tarjetasRojas", 1)

(***************************************************************************)
(* C9: pack32 throws exactly when a hard limit is exceeded (goles > 8,     *)
(* asistencias > 8, penaltisParados > 4, paradas > 32, despejes > 64,      *)
(* minutosJugados > 90, tarjetasAmarillas > 2, tarjetasRojas > 1); a value *)
(* at its limit is accepted when the other fields are within theirs.       *)
(***************************************************************************)
HardLimitIff ==
    pc = "returned" =>
        /\ packed[1].ok <=> ~AnyLimitExceeded(stats[1])
        /\ ~packed[1].ok => packed[1].err # "" /\ packed[1].hex = <<>>
        /\ packed[1].ok => Len(packed[1].hex) = 8

\* two fields exactly at their limits are accepted
HardLimitIffWitness ==
    /\ pc = "returned"
    /\ packed[1].ok
    /\ Num(stats[1], "paradas") = <<32>>
    /\ Num(stats[1], "minutosJugados") = <<90>>

Smaller(a, b) == IF a < b THEN a ELSE b

(***************************************************************************)
(* C10: for every accepted record the encoded paradas field (bits 8-12)    *)
(* is min(paradas, 31) and the encoded despejes field (bits 16-21) is      *)
(* min(despejes, 63).                                                      *)
(***************************************************************************)
SoftClamp ==
    (pc = "returned" /\ packed[1].ok) =>
        LET p == stats[1]
            d == ParseHex(packed[1].hex)
        IN  /\ "paradas" \in DOMAIN p => FieldOf(d, 8, 12) = Smaller(p.paradas, 31)
            /\ "despejes" \in DOMAIN p => FieldOf(d, 16, 21) = Smaller(p.despejes, 63)

\* every field present and inside its documented domain
InDomain(p) ==
    /\ DOMAIN p = DOMAIN ZeroRecord
    /\ p.goles \in 0..8
    /\ p.asistencias \in 0..8
    /\ p.penaltisParados \in 0..4
    /\ p.paradas \in 0..32
    /\ p.despejes \in 0..64
    /\ p.minutosJugados \in 0..90
    /\ p.tarjetasAmarillas \in 0..2
    /\ p.tarjetasRojas \in 0..1
    /\ p.porteriaCero \in BOOLEAN
    /\ p.ganoPartido \in BOOLEAN

Flag(b) == IF b THEN 1 ELSE 0

\* bits 0-21 of the word the layout formula gives
LayoutLow(p) == p.goles + 16 * p.asistencias + 256 * Smaller(p.paradas, 31)
                + 8192 * p.penaltisParados + 65536 * Smaller(p.despejes, 63)

\* bits 22-31 of the word the layout formula gives, as a number below 2^10
LayoutHigh(p) == (p.minutosJugados \div 3) + 32 * p.tarjetasAmarillas + 128 * p.tarjetasRojas
                 + 256 * Flag(p.porteriaCero) + 512 * Flag(p.ganoPartido)

(***************************************************************************)
(* C11: for every record inside the documented domains the packed word is  *)
(* goles + 2^4 asistencias + 2^8 min(paradas,31) + 2^13 penaltisParados +  *)
(* 2^16 min(despejes,63) + 2^22 floor(minutosJugados/3) +                  *)
(* 2^27 tarjetasAmarillas + 2^29 tarjetasRojas + 2^30 porteriaCero +       *)
(* 2^31 ganoPartido (stated on bits 0-21 and bits 22-31 of the word), and  *)
(* every field is read back unchanged from its own bit range.              *)
(***************************************************************************)
BitLayout ==
    (pc = "returned" /\ InDomain(stats[1])) =>
        LET p == stats[1]
            d == ParseHex(packed[1].hex)
        IN  /\ packed[1].ok
            /\ FieldOf(d, 0, 21) = LayoutLow(p)
            /\ FieldOf(d, 22, 31) = LayoutHigh(p)
            /\ FieldOf(d, 0, 3) = p.goles
            /\ FieldOf(d, 4, 7) = p.asistencias
            /\ FieldOf(d, 8, 12) = Smaller(p.paradas, 31)
            /\ FieldOf(d, 13, 15) = p.penaltisParados
            /\ FieldOf(d, 16, 21) = Smaller(p.despejes, 63)
            /\ FieldOf(d, 22, 26) = p.minutosJugados \div 3
            /\ FieldOf(d, 27, 28) = p.tarjetasAmarillas
            /\ FieldOf(d, 29, 29) = p.tarjetasRojas
            /\ FieldOf(d, 30, 30) = Flag(p.porteriaCero)
            /\ FieldOf(d, 31, 31) = Flag(p.ganoPartido)
            /\ p = [ZeroRecord EXCEPT !.ganoPartido = TRUE] =>
                  packed[1].hex = <<"8", "0", "0", "0", "0", "0", "0", "0">>
            /\ p = [ZeroRecord EXCEPT !.porteriaCero = TRUE] =>
                  packed[1].hex = <<"4", "0", "0", "0", "0", "0", "0", "0">>
            /\ p.minutosJugados = 89 => FieldOf(d, 22, 26) = 29
            /\ p.minutosJugados = 90 => FieldOf(d, 22, 26) = 30

\* 89 minutes and a won match: quantized to 29 next to the top bit
BitLayoutWitness ==
    /\ pc = "returned"
    /\ InDomain(stats[1])
    /\ stats[1].minutosJugados = 89
    /\ stats[1].ganoPartido
    /\ packed[1].hex = <<"8", "7", "4", "0", "0", "0", "0", "0">>

(***************************************************************************)
(* C12: for every record pack32 accepts, fields below 0 or absent          *)
(* included, the packed word has no bit above bit 31 and is rendered as    *)
(* exactly 8 hexadecimal characters.                                       *)
(***************************************************************************)
WordWidth ==
    (pc = "returned" /\ packed[1].ok) =>
        /\ Len(packed[1].hex) = 8
        /\ \A k \in 1..Len(packed[1].hex) : \E v \in 1..16 : HexChar[v] = packed[1].hex[k]
        /\ PackBits(stats[1]) \subseteq 0..31
        /\ ParseHex(packed[1].hex) = PackBits(stats[1])

\* an accepted record with a field below 0 and an absent field
WordWidthWitness ==
    /\ pc = "returned"
    /\ packed[1].ok
    /\ Num(stats[1], "tarjetasRojas") = <<0 - 1>>
    /\ Num(stats[1], "minutosJugados") = <<>>

FeeState ==
    /\ txData # <<>> =>
          /\ txData[1].gas = 120000
          /\ txData[1].maxPriorityFeePerGas = 2000000000
          /\ txData[1].maxFeePerGas = 2 * base[1] + 2000000000
    /\ \A e \in Received :
          /\ e.tx.gas = 120000
          /\ e.tx.maxPriorityFeePerGas = 2000000000
          /\ \E b \in BaseFees : e.tx.maxFeePerGas = 2 * b + 2000000000

FeeStep ==
    /\ (pc = "getBlock" /\ pc' = "sign") =>
          /\ base' = <<pendingBaseFee>>
          /\ txData'[1].maxFeePerGas = 2 * pendingBaseFee + 2000000000
    /\ \A e \in BagToSet(network') :
          CopiesIn(e, network') > CopiesIn(e, network) => e.rec = idx /\ e.tx = txData[1]

(***************************************************************************)
(* C13: every request has gas limit 120000, tip 2*10^9 and                 *)
(* maxFee = 2*baseFee + tip, where baseFee is the base fee of the pending  *)
(* block at the moment the record's request is built; what reaches the     *)
(* network is that request.                                                *)
(***************************************************************************)
FeeParameters == []FeeState /\ [][FeeStep]_vars

\* two records were submitted under different base fees
FeeParametersWitness ==
    \E e1, e2 \in Received :
        /\ e1.rec < e2.rec
        /\ e1.tx.maxFeePerGas = 2 * 3 + 2000000000
        /\ e2.tx.maxFeePerGas = 2 * (0 - 1) + 2000000000

(***************************************************************************)
(* C14 as stated: a base-fee failure is counted against the record's retry *)
(* budget, so it ends the run only when the 4 attempts are used up.        *)
(***************************************************************************)
BaseFeeFailureRetried ==
    (pc = "aborted" /\ error = "baseFee") => attempts = 4

(***************************************************************************)
(* C14 amended: a base-fee failure (the pending block cannot be read or    *)
(* has no base fee) is not retried and uses none of the retry budget: it   *)
(* ends the run at once, before any attempt of the record, with the        *)
(* record's nonce already taken, nothing submitted for it or for a later   *)
(* record, and no summary.                                                 *)
(***************************************************************************)
BaseFeeFailureFatal ==
    /\ error = "baseFee" =>
          /\ pc = "aborted"
          /\ attempts = 0
          /\ status[idx] = "Failed"
          /\ \A e \in Received : e.rec < idx
          /\ \A j \in Records : j > idx => status[j] = "Pending"
          /\ nonce = call[1].nonce + 1
          /\ summary = <<>>
    /\ pc = "getBlock" => attempts = 0 /\ status[idx] = "Building"

\* the base fee cannot be read for the second of three records
BaseFeeFailureFatalWitness ==
    /\ error = "baseFee"
    /\ Len(stats) = 3
    /\ idx = 2
    /\ status[1] = "Confirmed"

(***************************************************************************)
(* C15: no request is built or broadcast with fee parameters derived from  *)
(* a negative base fee.                                                    *)
(***************************************************************************)
NonNegativeBaseFee ==
    /\ base # <<>> => base[1] >= 0
    /\ txData # <<>> => txData[1].maxFeePerGas >= 2000000000
    /\ \A e \in Received : e.tx.maxFeePerGas >= 2000000000

\* a is the quotient t / n rounded to the nearest integer (halves up)
IsRounded(a, t, n) == 2 * n * a <= 2 * t + n /\ 2 * t + n < 2 * n * (a + 1)

(***************************************************************************)
(* C16: the average gas and the average latency of the summary are the    *)
(* accumulated totals divided by the number of input records, skipped     *)
(* records included (rounded to a whole number; not a number for an empty *)
(* batch), not by the number of submitted records.                        *)
(***************************************************************************)
AverageDivisor ==
    summary # <<>> =>
        LET n == Len(stats)
            r == summary[1]
        IN  /\ r.processed = n
            /\ r.totalGas = totalGas
            /\ n = 0 => r.avgGas = <<>> /\ r.avgLat = <<>>
            /\ n > 0 =>
                  /\ r.avgGas # <<>> /\ IsRounded(r.avgGas[1], totalGas, n)
                  /\ r.avgLat # <<>> /\ IsRounded(r.avgLat[1], SumSeq(latencies), n)

\* one of three records was skipped: the averages are a third of the totals
AverageDivisorWitness ==
    /\ summary # <<>>
    /\ Len(stats) = 3
    /\ Cardinality(Confirmed) = 2
    /\ totalGas = 120000
    /\ summary[1].avgGas = <<40000>>
    /\ SumSeq(latencies) = 460
    /\ summary[1].avgLat = <<153>>

Terminated ==
    \/ pc = "done" /\ summary # <<>> /\ error = ""
    \/ pc = "aborted" /\ summary = <<>> /\ error # ""

(***************************************************************************)
(* C17: when every network call returns, every batch ends, and stays      *)
(* ended, either completed with its summary or aborted by an error.       *)
(***************************************************************************)
Termination == <>[]Terminated

\* a batch completed after a record used all its three retries
TerminationWitness ==
    /\ pc = "done"
    /\ attempts = 4
    /\ Len(stats) = 3
    /\ Cardinality(Confirmed) = 3

\* a step that sends the signed request: the network gets one more copy of
\* the record's request, whatever it already holds at that nonce
RebroadcastStep ==
    (pc = "send" /\ pc' = "receipt") =>
        LET e == [rec |-> idx, tx |-> txData[1]]
        IN  /\ e.tx.nonce = call[1].nonce
            /\ CopiesIn(e, network') = CopiesIn(e, network) + 1

(***************************************************************************)
(* C18: no attempt checks whether its nonce was already used: every send  *)
(* adds one more copy of the record's request, at the nonce of the call,  *)
(* to what the network has received, so after an attempt that reached the *)
(* network and was reported as failed the retry puts a second request at  *)
(* the same nonce on the network.                                          *)
(***************************************************************************)
SameNonceHazard == [][RebroadcastStep]_vars

\* the network holds two requests of one record at one nonce
SameNonceHazardWitness ==
    /\ lateErrors >= 1
    /\ \E e \in Received : CopiesIn(e, network) >= 2

BetweenRecords == pc \in {"loop", "done"}
\* sendPacked is running for the current record
Submitting == pc \in {"getBlock", "sign", "send", "receipt"}

LatencyCountState ==
    /\ BetweenRecords =>
          /\ Len(latencies) = nonce - startNonce[1]
          /\ Len(latencies) = Cardinality(Confirmed)
    /\ Submitting =>
          /\ nonce - startNonce[1] = Len(latencies) + 1
          /\ call[1].nonce = startNonce[1] + Len(latencies)

\* the accumulator only grows at its end, by the entry of the record being
\* confirmed, which comes after every record confirmed before it
LatencyStep ==
    latencies' # latencies =>
        /\ \E dt \in LatenciesMs : latencies' = Append(latencies, dt)
        /\ status[idx] = "Broadcast"
        /\ status'[idx] = "Confirmed"
        /\ \A i \in Confirmed : i < idx
        /\ idx' = idx + 1

(***************************************************************************)
(* C20: between records the number of latency entries equals the nonce     *)
(* counter minus the starting nonce, while a record is being submitted the *)
(* counter is one ahead, and entries are appended in the input order of    *)
(* the submitted records.                                                  *)
(***************************************************************************)
LatencyCount == []LatencyCountState /\ [][LatencyStep]_vars

\* a finished batch with two submitted records and a skipped one
LatencyCountWitness ==
    /\ pc = "done"
    /\ Len(latencies) = 2
    /\ nonce - startNonce[1] = 2
    /\ \E i \in Records : status[i] = "Skipped"
====
